---- MODULE Spec2Model ----
(***************************************************************************)
(* The persistent secondary-index store: an append-only binary log file    *)
(* (storage.db) and the in-memory index rebuilt from it.  The log is       *)
(* modelled byte by byte, the index as the unordered_map of sorted         *)
(* (value, offset) vectors the engine keeps.                               *)
(***************************************************************************)
EXTENDS Integers, Sequences, FiniteSets, TLC

\* ------------------------------------------------------------------ bounds

\* At most this many records are appended to the log in one behaviour.
MaxRecords == 3

\* The keys the command driver passes: "a", "b" and a 257-byte token
\* (operator>> on a std::string reads a token of any length).
LongKeyLen == 257

KeyA == <<97>>

KeyB == <<98>>

KeyLong == [i \in 1..LongKeyLen |-> 120]

Keys == {KeyA, KeyB, KeyLong}

\* The (key, value) arguments of the insert and delete commands issued.
Pairs == {<<KeyA, -1>>, <<KeyA, 3>>, <<KeyA, 5>>, <<KeyB, 3>>, <<KeyLong, 5>>}

\* ------------------------------------------------------- program constants

\* A decoded key length above this marks the record as invalid.
MaxIndexLen == 256

\* ------------------------------------------------------------------- state

VARIABLES
    dataFile,   \* the bytes of storage.db, a sequence over 0..255
    indexMap,   \* key -> sequence of <<value, offset>> pairs
    cout,       \* the tokens the most recent call printed (<<>>: nothing)
    call,       \* the most recent call: [op, index, value]
    live,       \* the pairs whose most recent insert/remove call was an insert
    writes,     \* number of writeEntry calls so far
    \* The full-scan build (the first FileStorage of main.cpp), on a log file
    \* of its own and given the same commands:
    scanFile,   \* the bytes of its storage.db
    scanMap,    \* key -> sorted sequence of values
    scanCout,   \* the tokens its most recent call printed
    scanWrites, \* number of its writeEntry calls so far
    \* The offsets/values build (the second FileStorage of main.cpp), on a
    \* log file of its own:
    offFile,    \* the bytes of its storage.db
    offMap,     \* key -> [offsets: file offsets, values: sorted values]
    offCout,    \* the tokens its most recent call printed
    offWrites,  \* number of its writeEntry calls so far
    \* The position of the process inside an operation, for the behaviours
    \* that take the loops one iteration at a time:
    pc,         \* "main" between two commands, else the loop that is running
    getPos      \* the get position of the stream (in find: the loop index i)

scanVars == <<scanFile, scanMap, scanCout, scanWrites>>

offVars == <<offFile, offMap, offCout, offWrites>>

stepVars == <<pc, getPos>>

vars == <<dataFile, indexMap, cout, call, live, writes, scanVars, offVars, stepVars>>

\* ------------------------------------------------------ record (de)coding

\* The four bytes of a uint32_t in memory order (little-endian).
EncodeU32(n) ==
    <<n % 256, (n \div 256) % 256, (n \div 65536) % 256, (n \div 16777216) % 256>>

\* The four bytes of an int: two's complement, so a negative v is the
\* bitwise complement of -(v+1).
EncodeI32(v) ==
    IF v >= 0 THEN EncodeU32(v)
    ELSE LET b == EncodeU32(-(v + 1)) IN [i \in 1..4 |-> 255 - b[i]]

\* The unsigned number four bytes hold (used only below 2^31).
DecodeU32(b) ==
    b[1] + 256 * b[2] + 65536 * b[3] + 16777216 * b[4]

DecodeI32(b) ==
    IF b[4] < 128 THEN DecodeU32(b)
    ELSE -DecodeU32([i \in 1..4 |-> 255 - b[i]]) - 1

\* The scan without the indexLen > 256 test.
IndexLenNeverInvalid(b) == FALSE

\* indexLen > 256, decided on the bytes (the high bytes first, so that the
\* number is only formed when it is small).
IndexLenInvalid(b) ==
    b[4] # 0 \/ b[3] # 0 \/ DecodeU32(b) > MaxIndexLen

\* A record without the tombstone byte: key length, key, value.
EntryBytesNoTombstone(index, value) ==
    EncodeU32(Len(index)) \o index \o EncodeI32(value)

\* The bytes writeEntry appends for (index, value): deleted = 0, indexLen,
\* the key bytes, the value.
EntryBytes(index, value) ==
    <<0>> \o EncodeU32(Len(index)) \o index \o EncodeI32(value)

\* writeEntry with tellp() taken after the writes instead of before them.
writeEntryOffsetAfter(file, index, value) ==
    <<file \o EntryBytes(index, value), Len(file) + Len(EntryBytes(index, value))>>

\* writeEntry without seekp(0, end): the put position is the start of the
\* file, the record overwrites what is there.
writeEntryNoSeekEnd(file, index, value) ==
    <<EntryBytes(index, value)
          \o SubSeq(file, Len(EntryBytes(index, value)) + 1, Len(file)), 0>>

\* writeEntry with tellp() taken before seekp(0, end): the offset returned
\* is the start of the file.
writeEntryTellBeforeSeek(file, index, value) ==
    <<file \o EntryBytes(index, value), 0>>

\* writeEntry: <<the file after the append, the offset returned>>; the
\* offset is the length of the file before it (seekp(0, end); tellp()).
writeEntry(file, index, value) ==
    <<file \o EntryBytes(index, value), Len(file)>>

\* markDeleted writing the "not deleted" byte.
markDeletedWritesZero(file, offset) ==
    [file EXCEPT ![offset + 1] = 0]

\* markDeleted: overwrite the one byte at `offset` with 1.
markDeleted(file, offset) ==
    [file EXCEPT ![offset + 1] = 1]

\* -------------------------------------------------------------- the index

EmptyMap == [k \in {} |-> <<>>]

\* clear() in the place of erase(it).
EraseKeyClearsMap(map, index) == [k \in {} |-> <<>>]

\* remove without the erase of the emptied key.
EraseKeyLeavesEmpty(map, index) == [map EXCEPT ![index] = <<>>]

\* unordered_map::erase(it).
EraseKey(map, index) == [k \in (DOMAIN map) \ {index} |-> map[k]]

\* map[index] = entries, creating the key when it is new.
PutKey(map, index, entries) ==
    [k \in (DOMAIN map) \cup {index} |-> IF k = index THEN entries ELSE map[k]]

\* vector::insert(pos, x), pos a 1-based position, Len + 1 for end().
InsertAt(entries, pos, x) ==
    SubSeq(entries, 1, pos - 1) \o <<x>> \o SubSeq(entries, pos, Len(entries))

\* vector::erase(pos).
EraseAt(entries, pos) ==
    SubSeq(entries, 1, pos - 1) \o SubSeq(entries, pos + 1, Len(entries))

\* std::lower_bound with the comparator a.first < b.first: the binary search
\* of the library, on the half-open range [first, first + len).
RECURSIVE LowerBoundFrom(_, _, _, _)
LowerBoundFrom(entries, value, first, len) ==
    IF len <= 0 THEN first
    ELSE LET half == len \div 2
             middle == first + half
         IN  IF entries[middle][1] < value
             THEN LowerBoundFrom(entries, value, middle + 1, len - half - 1)
             ELSE LowerBoundFrom(entries, value, first, half)

lower_bound(entries, value) == LowerBoundFrom(entries, value, 1, Len(entries))

\* operator< of pair<int, long>: lexicographic.
PairLess(a, b) == a[1] < b[1] \/ (a[1] = b[1] /\ a[2] < b[2])

\* std::sort of a vector of pairs (the order is total, so the result is the
\* one ascending arrangement): insertion into a sorted prefix.
RECURSIVE SortedInsert(_, _)
SortedInsert(sorted, x) ==
    IF sorted = <<>> THEN <<x>>
    ELSE IF PairLess(x, Head(sorted)) THEN <<x>> \o sorted
    ELSE <<Head(sorted)>> \o SortedInsert(Tail(sorted), x)

RECURSIVE SortPairs(_)
SortPairs(entries) ==
    IF entries = <<>> THEN <<>>
    ELSE SortedInsert(SortPairs(SubSeq(entries, 1, Len(entries) - 1)),
                      entries[Len(entries)])

\* The scan loop of rebuildIndex from byte offset `pos`: `map` holds the
\* entries pushed so far, in file order.  Every read that under-runs the
\* file sets eof/fail and breaks the loop.
RECURSIVE ScanFrom(_, _, _)
ScanFrom(file, pos, map) ==
    IF pos + 1 > Len(file) THEN map
    ELSE IF pos + 5 > Len(file) THEN map
    ELSE LET deleted == file[pos + 1]
             lenBytes == SubSeq(file, pos + 2, pos + 5)
         IN  IF IndexLenInvalid(lenBytes) THEN map
             ELSE LET indexLen == DecodeU32(lenBytes) IN
                  IF pos + 5 + indexLen > Len(file) THEN map
                  ELSE IF pos + 5 + indexLen + 4 > Len(file) THEN map
                  ELSE LET index == SubSeq(file, pos + 6, pos + 5 + indexLen)
                           value == DecodeI32(SubSeq(file, pos + 6 + indexLen,
                                                     pos + 9 + indexLen))
                           old == IF index \in DOMAIN map THEN map[index] ELSE <<>>
                       IN  ScanFrom(file, pos + 9 + indexLen,
                                    IF deleted = 0
                                    THEN PutKey(map, index, Append(old, <<value, pos>>))
                                    ELSE map)

\* rebuildIndex without the sort after the scan.
rebuildIndexUnsorted(file) == ScanFrom(file, 0, EmptyMap)

\* rebuildIndex: clear, scan from offset 0, then sort every key's entries.
rebuildIndex(file) ==
    LET scanned == ScanFrom(file, 0, EmptyMap)
    IN  [k \in DOMAIN scanned |-> SortPairs(scanned[k])]

\* The line find prints, as its tokens.
RECURSIVE ValueTokens(_)
ValueTokens(entries) ==
    IF entries = <<>> THEN <<>>
    ELSE <<ToString(Head(entries)[1])>> \o ValueTokens(Tail(entries))

findLine(map, index) ==
    IF index \notin DOMAIN map \/ map[index] = <<>> THEN <<"null">>
    ELSE ValueTokens(map[index])

\* ------------------------------------------------------------- operations

Init ==
    /\ dataFile = <<>>
    /\ indexMap = EmptyMap
    /\ cout = <<>>
    /\ call = [op |-> "open", index |-> <<>>, value |-> 0]
    /\ live = {}
    /\ writes = 0
    /\ scanFile = <<>>
    /\ scanMap = EmptyMap
    /\ scanCout = <<>>
    /\ scanWrites = 0
    /\ offFile = <<>>
    /\ offMap = EmptyMap
    /\ offCout = <<>>
    /\ offWrites = 0
    /\ pc = "main"
    /\ getPos = 0

\* (index, value) is in the index, as insert and remove decide it.
Present(map, index, value) ==
    /\ index \in DOMAIN map
    /\ LET found == lower_bound(map[index], value)
       IN  found <= Len(map[index]) /\ map[index][found][1] = value

\* insert without the "already exists" return.
insertResultNoCheck(file, map, index, value) ==
    LET w == writeEntry(file, index, value)
    IN  IF index \in DOMAIN map
        THEN <<w[1], [map EXCEPT ![index] =
                          InsertAt(map[index], lower_bound(map[index], value),
                                   <<value, w[2]>>)]>>
        ELSE <<w[1], PutKey(map, index, <<<<value, w[2]>>>>)>>

\* insert: the resulting <<file, map>>.
insertResult(file, map, index, value) ==
    IF index \in DOMAIN map
    THEN LET entries == map[index]
             found == lower_bound(entries, value)
         IN  IF found <= Len(entries) /\ entries[found][1] = value
             THEN <<file, map>>
             ELSE LET w == writeEntry(file, index, value)
                  IN  <<w[1],
                        [map EXCEPT ![index] = InsertAt(entries, found, <<value, w[2]>>)]>>
    ELSE LET w == writeEntry(file, index, value)
         IN  <<w[1], PutKey(map, index, <<<<value, w[2]>>>>)>>

\* remove that tombstones the record and leaves the pair in the sequence.
removeResultKeepsEntry(file, map, index, value) ==
    IF index \notin DOMAIN map THEN <<file, map>>
    ELSE LET entries == map[index]
             found == lower_bound(entries, value)
         IN  IF found > Len(entries) \/ entries[found][1] # value
             THEN <<file, map>>
             ELSE <<markDeleted(file, entries[found][2]), map>>

\* remove without the found->first != value test.
removeResultNoValueCheck(file, map, index, value) ==
    IF index \notin DOMAIN map THEN <<file, map>>
    ELSE LET entries == map[index]
             found == lower_bound(entries, value)
         IN  IF found > Len(entries)
             THEN <<file, map>>
             ELSE LET erased == EraseAt(entries, found)
                  IN  <<markDeleted(file, entries[found][2]),
                        IF erased = <<>> THEN EraseKey(map, index)
                        ELSE [map EXCEPT ![index] = erased]>>

\* remove: the resulting <<file, map>>.
removeResult(file, map, index, value) ==
    IF index \notin DOMAIN map THEN <<file, map>>
    ELSE LET entries == map[index]
             found == lower_bound(entries, value)
         IN  IF found > Len(entries) \/ entries[found][1] # value
             THEN <<file, map>>
             ELSE LET erased == EraseAt(entries, found)
                  IN  <<markDeleted(file, entries[found][2]),
                        IF erased = <<>> THEN EraseKey(map, index)
                        ELSE [map EXCEPT ![index] = erased]>>

insert(index, value) ==
    /\ Present(indexMap, index, value) \/ writes < MaxRecords
    /\ LET r == insertResult(dataFile, indexMap, index, value)
       IN  /\ dataFile' = r[1]
           /\ indexMap' = r[2]
           /\ writes' = IF r[1] = dataFile THEN writes ELSE writes + 1
    /\ cout' = <<>>
    /\ call' = [op |-> "insert", index |-> index, value |-> value]
    /\ live' = live \cup {<<index, value>>}

remove(index, value) ==
    /\ LET r == removeResult(dataFile, indexMap, index, value)
       IN  /\ dataFile' = r[1]
           /\ indexMap' = r[2]
    /\ cout' = <<>>
    /\ call' = [op |-> "delete", index |-> index, value |-> value]
    /\ live' = live \ {<<index, value>>}
    /\ UNCHANGED writes

find(index) ==
    /\ cout' = findLine(indexMap, index)
    /\ call' = [op |-> "find", index |-> index, value |-> 0]
    /\ UNCHANGED <<dataFile, indexMap, live, writes>>

\* The process ends and is started again: the file exists, so the
\* constructor runs rebuildIndex on it.
Restart ==
    /\ indexMap' = rebuildIndex(dataFile)
    /\ cout' = <<>>
    /\ call' = [op |-> "open", index |-> <<>>, value |-> 0]
    /\ UNCHANGED <<dataFile, live, writes>>

\* One process, from the absent log to its exit: no restart.
NextSession ==
    \/ \E p \in Pairs : insert(p[1], p[2]) /\ UNCHANGED <<scanVars, offVars, stepVars>>
    \/ \E p \in Pairs : remove(p[1], p[2]) /\ UNCHANGED <<scanVars, offVars, stepVars>>
    \/ \E index \in Keys : find(index) /\ UNCHANGED <<scanVars, offVars, stepVars>>

SpecSession == Init /\ [][NextSession]_vars

Next ==
    \/ \E p \in Pairs : insert(p[1], p[2]) /\ UNCHANGED <<scanVars, offVars, stepVars>>
    \/ \E p \in Pairs : remove(p[1], p[2]) /\ UNCHANGED <<scanVars, offVars, stepVars>>
    \/ \E index \in Keys : find(index) /\ UNCHANGED <<scanVars, offVars, stepVars>>
    \/ Restart /\ UNCHANGED <<scanVars, offVars, stepVars>>

Spec == Init /\ [][Next]_vars

\* The keys a rebuild accepts, for the behaviours with a torn append.
ShortPairs == {p \in Pairs : Len(p[1]) <= MaxIndexLen}

\* How many bytes of a record reach the file before the process dies: the
\* tombstone byte alone, the whole header, the header and key with a part
\* of the value.
TornLengths == {1, 5, 8}

\* The process dies inside writeEntry when only the first n bytes of the
\* record have reached the file, and is started again on that file.
CrashMidAppend(index, value, n) ==
    /\ ~Present(indexMap, index, value)
    /\ writes < MaxRecords
    /\ n < Len(EntryBytes(index, value))
    /\ dataFile' = dataFile \o SubSeq(EntryBytes(index, value), 1, n)
    /\ indexMap' = rebuildIndex(dataFile')
    /\ writes' = writes + 1
    /\ cout' = <<>>
    /\ call' = [op |-> "open", index |-> <<>>, value |-> 0]
    /\ UNCHANGED live

NextCrash ==
    \/ \E p \in ShortPairs : insert(p[1], p[2]) /\ UNCHANGED <<scanVars, offVars, stepVars>>
    \/ \E p \in ShortPairs : remove(p[1], p[2]) /\ UNCHANGED <<scanVars, offVars, stepVars>>
    \/ \E index \in Keys : find(index) /\ UNCHANGED <<scanVars, offVars, stepVars>>
    \/ Restart /\ UNCHANGED <<scanVars, offVars, stepVars>>
    \/ \E p \in ShortPairs : \E n \in TornLengths :
           CrashMidAppend(p[1], p[2], n) /\ UNCHANGED <<scanVars, offVars, stepVars>>

SpecCrash == Init /\ [][NextCrash]_vars

\* Torn appends together with a key of more than 256 bytes: the commands
\* issued in the behaviours whose logs hold both kinds of undecodable
\* record.
TornPairs == {<<KeyA, 3>>, <<KeyB, 3>>, <<KeyLong, 5>>}

NextTorn ==
    \/ \E p \in TornPairs : insert(p[1], p[2]) /\ UNCHANGED <<scanVars, offVars, stepVars>>
    \/ \E p \in TornPairs : remove(p[1], p[2]) /\ UNCHANGED <<scanVars, offVars, stepVars>>
    \/ \E index \in Keys : find(index) /\ UNCHANGED <<scanVars, offVars, stepVars>>
    \/ Restart /\ UNCHANGED <<scanVars, offVars, stepVars>>
    \/ \E p \in TornPairs : \E n \in TornLengths :
           CrashMidAppend(p[1], p[2], n) /\ UNCHANGED <<scanVars, offVars, stepVars>>

SpecTorn == Init /\ [][NextTorn]_vars

\* --------------------------------------------------- the full-scan build

\* Its writeEntry: the same bytes, no offset returned.
scan_writeEntry(file, index, value) == file \o EntryBytes(index, value)

\* Its markDeleted: scan the file from offset 0 for the first live record
\* with the target key and value and write 1 over its first byte; every
\* under-run and every indexLen > 256 ends the scan.
RECURSIVE scan_markDeletedFrom(_, _, _, _)
scan_markDeletedFrom(file, pos, targetIndex, targetValue) ==
    IF pos + 1 > Len(file) THEN file
    ELSE IF pos + 5 > Len(file) THEN file
    ELSE LET deleted == file[pos + 1]
             lenBytes == SubSeq(file, pos + 2, pos + 5)
         IN  IF IndexLenInvalid(lenBytes) THEN file
             ELSE LET indexLen == DecodeU32(lenBytes) IN
                  IF pos + 5 + indexLen > Len(file) THEN file
                  ELSE IF pos + 5 + indexLen + 4 > Len(file) THEN file
                  ELSE LET index == SubSeq(file, pos + 6, pos + 5 + indexLen)
                           value == DecodeI32(SubSeq(file, pos + 6 + indexLen,
                                                     pos + 9 + indexLen))
                       IN  IF deleted = 0 /\ index = targetIndex /\ value = targetValue
                           THEN [file EXCEPT ![pos + 1] = 1]
                           ELSE scan_markDeletedFrom(file, pos + 9 + indexLen,
                                                     targetIndex, targetValue)

scan_markDeleted(file, targetIndex, targetValue) ==
    scan_markDeletedFrom(file, 0, targetIndex, targetValue)

\* std::sort of a vector<int>.
RECURSIVE SortedInsertInt(_, _)
SortedInsertInt(sorted, x) ==
    IF sorted = <<>> THEN <<x>>
    ELSE IF x < Head(sorted) THEN <<x>> \o sorted
    ELSE <<Head(sorted)>> \o SortedInsertInt(Tail(sorted), x)

RECURSIVE SortInts(_)
SortInts(values) ==
    IF values = <<>> THEN <<>>
    ELSE SortedInsertInt(SortInts(SubSeq(values, 1, Len(values) - 1)),
                         values[Len(values)])

\* std::lower_bound on a vector<int>.
RECURSIVE LowerBoundIntFrom(_, _, _, _)
LowerBoundIntFrom(values, value, first, len) ==
    IF len <= 0 THEN first
    ELSE LET half == len \div 2
             middle == first + half
         IN  IF values[middle] < value
             THEN LowerBoundIntFrom(values, value, middle + 1, len - half - 1)
             ELSE LowerBoundIntFrom(values, value, first, half)

scan_lower_bound(values, value) == LowerBoundIntFrom(values, value, 1, Len(values))

\* The scan loop of its rebuildIndex: the values of the live records, per
\* key, in file order.
RECURSIVE scan_ScanFrom(_, _, _)
scan_ScanFrom(file, pos, map) ==
    IF pos + 1 > Len(file) THEN map
    ELSE IF pos + 5 > Len(file) THEN map
    ELSE LET deleted == file[pos + 1]
             lenBytes == SubSeq(file, pos + 2, pos + 5)
         IN  IF IndexLenInvalid(lenBytes) THEN map
             ELSE LET indexLen == DecodeU32(lenBytes) IN
                  IF pos + 5 + indexLen > Len(file) THEN map
                  ELSE IF pos + 5 + indexLen + 4 > Len(file) THEN map
                  ELSE LET index == SubSeq(file, pos + 6, pos + 5 + indexLen)
                           value == DecodeI32(SubSeq(file, pos + 6 + indexLen,
                                                     pos + 9 + indexLen))
                           old == IF index \in DOMAIN map THEN map[index] ELSE <<>>
                       IN  scan_ScanFrom(file, pos + 9 + indexLen,
                                         IF deleted = 0
                                         THEN PutKey(map, index, Append(old, value))
                                         ELSE map)

scan_rebuildIndex(file) ==
    LET scanned == scan_ScanFrom(file, 0, EmptyMap)
    IN  [k \in DOMAIN scanned |-> SortInts(scanned[k])]

\* Its insert: the resulting <<file, map>>.
scan_insertResult(file, map, index, value) ==
    IF index \in DOMAIN map
    THEN LET values == map[index]
             found == scan_lower_bound(values, value)
         IN  IF found <= Len(values) /\ values[found] = value
             THEN <<file, map>>
             ELSE <<scan_writeEntry(file, index, value),
                    [map EXCEPT ![index] = InsertAt(values, found, value)]>>
    ELSE <<scan_writeEntry(file, index, value), PutKey(map, index, <<value>>)>>

\* Its remove: the resulting <<file, map>>.
scan_removeResult(file, map, index, value) ==
    IF index \notin DOMAIN map THEN <<file, map>>
    ELSE LET values == map[index]
             found == scan_lower_bound(values, value)
         IN  IF found > Len(values) \/ values[found] # value
             THEN <<file, map>>
             ELSE LET erased == EraseAt(values, found)
                  IN  <<scan_markDeleted(file, index, value),
                        IF erased = <<>> THEN EraseKey(map, index)
                        ELSE [map EXCEPT ![index] = erased]>>

RECURSIVE IntTokens(_)
IntTokens(values) ==
    IF values = <<>> THEN <<>>
    ELSE <<ToString(Head(values))>> \o IntTokens(Tail(values))

scan_findLine(map, index) ==
    IF index \notin DOMAIN map \/ map[index] = <<>> THEN <<"null">>
    ELSE IntTokens(map[index])

scan_insert(index, value) ==
    LET r == scan_insertResult(scanFile, scanMap, index, value)
    IN  /\ r[1] = scanFile \/ scanWrites < MaxRecords
        /\ scanFile' = r[1]
        /\ scanMap' = r[2]
        /\ scanWrites' = IF r[1] = scanFile THEN scanWrites ELSE scanWrites + 1
        /\ scanCout' = <<>>

scan_remove(index, value) ==
    LET r == scan_removeResult(scanFile, scanMap, index, value)
    IN  /\ scanFile' = r[1]
        /\ scanMap' = r[2]
        /\ scanCout' = <<>>
        /\ UNCHANGED scanWrites

scan_find(index) ==
    /\ scanCout' = scan_findLine(scanMap, index)
    /\ UNCHANGED <<scanFile, scanMap, scanWrites>>

scan_Restart ==
    /\ scanMap' = scan_rebuildIndex(scanFile)
    /\ scanCout' = <<>>
    /\ UNCHANGED <<scanFile, scanWrites>>

\* Both builds, each on its own log, given the same commands and restarted
\* together.
NextPair ==
    \/ \E p \in Pairs :
           insert(p[1], p[2]) /\ scan_insert(p[1], p[2]) /\ UNCHANGED <<offVars, stepVars>>
    \/ \E p \in Pairs :
           remove(p[1], p[2]) /\ scan_remove(p[1], p[2]) /\ UNCHANGED <<offVars, stepVars>>
    \/ \E index \in Keys : find(index) /\ scan_find(index) /\ UNCHANGED <<offVars, stepVars>>
    \/ Restart /\ scan_Restart /\ UNCHANGED <<offVars, stepVars>>

SpecPair == Init /\ [][NextPair]_vars

\* ------------------------------------------------ the offsets/values build

\* The second FileStorage of main.cpp: its records carry no tombstone byte,
\* the index keeps per key the offsets of the key's records (in the order
\* they were appended or scanned) and the key's values (sorted).

\* The pairs its behaviours insert and remove.
OffPairs == {<<KeyA, -1>>, <<KeyA, 3>>, <<KeyA, 5>>, <<KeyB, 3>>}

\* The bytes its writeEntry appends: indexLen, the key bytes, the value.
off_EntryBytes(index, value) ==
    EncodeU32(Len(index)) \o index \o EncodeI32(value)

\* Its writeEntry: <<the file after the append, the offset returned>>.
off_writeEntry(file, index, value) ==
    <<file \o off_EntryBytes(index, value), Len(file)>>

\* Its readEntry: [ok, index, value]; ok is FALSE on an under-run and on
\* indexLen > 256.
off_readEntry(file, offset) ==
    LET failed == [ok |-> FALSE, index |-> <<>>, value |-> 0]
    IN  IF offset + 4 > Len(file) THEN failed
        ELSE LET lenBytes == SubSeq(file, offset + 1, offset + 4)
             IN  IF IndexLenInvalid(lenBytes) THEN failed
                 ELSE LET indexLen == DecodeU32(lenBytes) IN
                      IF offset + 4 + indexLen > Len(file) THEN failed
                      ELSE IF offset + 4 + indexLen + 4 > Len(file) THEN failed
                      ELSE [ok |-> TRUE,
                            index |-> SubSeq(file, offset + 5, offset + 4 + indexLen),
                            value |-> DecodeI32(SubSeq(file, offset + 5 + indexLen,
                                                       offset + 8 + indexLen))]

\* The scan loop of its rebuildIndex: every record it can decode gives its
\* key one more offset and one more value, whatever was removed before.
RECURSIVE off_ScanFrom(_, _, _)
off_ScanFrom(file, pos, map) ==
    IF pos + 4 > Len(file) THEN map
    ELSE LET lenBytes == SubSeq(file, pos + 1, pos + 4)
         IN  IF IndexLenInvalid(lenBytes) THEN map
             ELSE LET indexLen == DecodeU32(lenBytes) IN
                  IF pos + 4 + indexLen > Len(file) THEN map
                  ELSE IF pos + 4 + indexLen + 4 > Len(file) THEN map
                  ELSE LET index == SubSeq(file, pos + 5, pos + 4 + indexLen)
                           value == DecodeI32(SubSeq(file, pos + 5 + indexLen,
                                                     pos + 8 + indexLen))
                           old == IF index \in DOMAIN map THEN map[index]
                                  ELSE [offsets |-> <<>>, values |-> <<>>]
                       IN  off_ScanFrom(file, pos + 8 + indexLen,
                               PutKey(map, index,
                                      [offsets |-> Append(old.offsets, pos),
                                       values |-> Append(old.values, value)]))

off_rebuildIndex(file) ==
    LET scanned == off_ScanFrom(file, 0, EmptyMap)
    IN  [k \in DOMAIN scanned |->
             [offsets |-> scanned[k].offsets,
              values |-> SortInts(scanned[k].values)]]

\* Its insert: the resulting <<file, map>>.
off_insertResult(file, map, index, value) ==
    IF index \in DOMAIN map
    THEN LET values == map[index].values
             found == scan_lower_bound(values, value)
         IN  IF found <= Len(values) /\ values[found] = value
             THEN <<file, map>>
             ELSE LET w == off_writeEntry(file, index, value)
                  IN  <<w[1],
                        [map EXCEPT ![index] =
                             [offsets |-> Append(map[index].offsets, w[2]),
                              values |-> InsertAt(values, found, value)]]>>
    ELSE LET w == off_writeEntry(file, index, value)
         IN  <<w[1], PutKey(map, index,
                            [offsets |-> <<w[2]>>, values |-> <<value>>])>>

\* The loop of its remove: the first position i of offsets whose record
\* readEntry can read and whose value is the one to remove; 0 if none.
RECURSIVE off_FirstMatch(_, _, _, _)
off_FirstMatch(file, offsets, i, value) ==
    IF i > Len(offsets) THEN 0
    ELSE LET e == off_readEntry(file, offsets[i])
         IN  IF e.ok /\ e.value = value THEN i
             ELSE off_FirstMatch(file, offsets, i + 1, value)

\* Its remove: the resulting map; nothing is written to the file.
off_removeResult(file, map, index, value) ==
    IF index \notin DOMAIN map THEN map
    ELSE LET values == map[index].values
             offsets == map[index].offsets
             found == scan_lower_bound(values, value)
         IN  IF found > Len(values) \/ values[found] # value THEN map
             ELSE LET i == off_FirstMatch(file, offsets, 1, value)
                  IN  IF i = 0 THEN map
                      ELSE IF EraseAt(offsets, i) = <<>> THEN EraseKey(map, index)
                      ELSE [map EXCEPT ![index] =
                                [offsets |-> EraseAt(offsets, i),
                                 values |-> EraseAt(values, found)]]

off_findLine(map, index) ==
    IF index \notin DOMAIN map \/ map[index].values = <<>> THEN <<"null">>
    ELSE IntTokens(map[index].values)

off_insert(index, value) ==
    LET r == off_insertResult(offFile, offMap, index, value)
    IN  /\ r[1] = offFile \/ offWrites < MaxRecords
        /\ offFile' = r[1]
        /\ offMap' = r[2]
        /\ offWrites' = IF r[1] = offFile THEN offWrites ELSE offWrites + 1
        /\ offCout' = <<>>
        /\ call' = [op |-> "insert", index |-> index, value |-> value]
        /\ live' = live \cup {<<index, value>>}

off_remove(index, value) ==
    /\ offMap' = off_removeResult(offFile, offMap, index, value)
    /\ offCout' = <<>>
    /\ call' = [op |-> "delete", index |-> index, value |-> value]
    /\ live' = live \ {<<index, value>>}
    /\ UNCHANGED <<offFile, offWrites>>

off_find(index) ==
    /\ offCout' = off_findLine(offMap, index)
    /\ call' = [op |-> "find", index |-> index, value |-> 0]
    /\ UNCHANGED <<offFile, offMap, offWrites, live>>

off_Restart ==
    /\ offMap' = off_rebuildIndex(offFile)
    /\ offCout' = <<>>
    /\ call' = [op |-> "open", index |-> <<>>, value |-> 0]
    /\ UNCHANGED <<offFile, offWrites, live>>

\* The offsets/values build alone, with restarts.
NextOffsets ==
    \/ \E p \in OffPairs :
           off_insert(p[1], p[2])
               /\ UNCHANGED <<dataFile, indexMap, cout, writes, scanVars, stepVars>>
    \/ \E p \in OffPairs :
           off_remove(p[1], p[2])
               /\ UNCHANGED <<dataFile, indexMap, cout, writes, scanVars, stepVars>>
    \/ \E index \in {KeyA, KeyB} :
           off_find(index)
               /\ UNCHANGED <<dataFile, indexMap, cout, writes, scanVars, stepVars>>
    \/ off_Restart /\ UNCHANGED <<dataFile, indexMap, cout, writes, scanVars, stepVars>>

SpecOffsets == Init /\ [][NextOffsets]_vars

\* ------------------------------------------- the loops, one iteration a step

\* The log files a process may be started on: up to MaxBlocks blocks, each
\* a whole record (live, tombstoned, with the empty key), a record cut short
\* by a crash, or bytes that are no record at all.
MaxBlocks == 2

Blocks ==
    {EntryBytes(KeyB, 3),
     <<1>> \o Tail(EntryBytes(KeyA, 3)),
     EntryBytes(<<>>, 5),
     <<255, 255, 255, 255, 255, 255>>}
        \cup {SubSeq(EntryBytes(KeyA, 3), 1, n) : n \in TornLengths}

RECURSIVE FilesOf(_)
FilesOf(n) ==
    IF n = 0 THEN {<<>>}
    ELSE FilesOf(n - 1) \cup {f \o b : f \in FilesOf(n - 1), b \in Blocks}

LogFiles == FilesOf(MaxBlocks)

\* The pairs and keys of the commands in these behaviours.
StepPairs == {<<KeyB, 3>>}

\* The appends of one such behaviour.
MaxStepAppends == 1

StepKeys == {KeyA, KeyB}

\* The process is started on a log file that exists: the constructor of the
\* canonical build, or that of the full-scan build, enters rebuildIndex.
InitSteps ==
    /\ \E f \in LogFiles :
           \/ dataFile = f /\ scanFile = <<>> /\ pc = "rebuildIndex"
           \/ dataFile = <<>> /\ scanFile = f /\ pc = "scan_rebuildIndex"
    /\ getPos = 0
    /\ indexMap = EmptyMap
    /\ cout = <<>>
    /\ call = [op |-> "open", index |-> <<>>, value |-> 0]
    /\ live = {}
    /\ writes = 0
    /\ scanMap = EmptyMap
    /\ scanCout = <<>>
    /\ scanWrites = 0
    /\ offFile = <<>>
    /\ offMap = EmptyMap
    /\ offCout = <<>>
    /\ offWrites = 0

\* The loop body of rebuildIndex without the break after the failed read of
\* the tombstone byte at the end of the file: the loop goes round at the
\* same position.
rebuildIterationNoEofBreak(file, p, map) ==
    LET break == [exit |-> TRUE, pos |-> p, map |-> map]
    IN  IF p + 1 > Len(file) THEN [exit |-> FALSE, pos |-> p, map |-> map]
        ELSE IF p + 5 > Len(file) THEN break
        ELSE LET deleted == file[p + 1]
                 lenBytes == SubSeq(file, p + 2, p + 5)
             IN  IF IndexLenInvalid(lenBytes) THEN break
                 ELSE LET indexLen == DecodeU32(lenBytes) IN
                      IF p + 5 + indexLen > Len(file) THEN break
                      ELSE IF p + 5 + indexLen + 4 > Len(file) THEN break
                      ELSE LET index == SubSeq(file, p + 6, p + 5 + indexLen)
                               value == DecodeI32(SubSeq(file, p + 6 + indexLen,
                                                         p + 9 + indexLen))
                               old == IF index \in DOMAIN map THEN map[index]
                                      ELSE <<>>
                           IN  [exit |-> FALSE,
                                pos |-> p + 9 + indexLen,
                                map |-> IF deleted = 0
                                        THEN PutKey(map, index,
                                                    Append(old, <<value, p>>))
                                        ELSE map]

\* One pass through the body of the while loop of rebuildIndex with the
\* get position at p: [exit, pos, map].  exit: a break was taken.
rebuildIteration(file, p, map) ==
    LET break == [exit |-> TRUE, pos |-> p, map |-> map]
    IN  IF p + 1 > Len(file) THEN break
        ELSE IF p + 5 > Len(file) THEN break
        ELSE LET deleted == file[p + 1]
                 lenBytes == SubSeq(file, p + 2, p + 5)
             IN  IF IndexLenInvalid(lenBytes) THEN break
                 ELSE LET indexLen == DecodeU32(lenBytes) IN
                      IF p + 5 + indexLen > Len(file) THEN break
                      ELSE IF p + 5 + indexLen + 4 > Len(file) THEN break
                      ELSE LET index == SubSeq(file, p + 6, p + 5 + indexLen)
                               value == DecodeI32(SubSeq(file, p + 6 + indexLen,
                                                         p + 9 + indexLen))
                               old == IF index \in DOMAIN map THEN map[index]
                                      ELSE <<>>
                           IN  [exit |-> FALSE,
                                pos |-> p + 9 + indexLen,
                                map |-> IF deleted = 0
                                        THEN PutKey(map, index,
                                                    Append(old, <<value, p>>))
                                        ELSE map]

\* The same for the rebuildIndex of the full-scan build.
scan_rebuildIteration(file, p, map) ==
    LET break == [exit |-> TRUE, pos |-> p, map |-> map]
    IN  IF p + 1 > Len(file) THEN break
        ELSE IF p + 5 > Len(file) THEN break
        ELSE LET deleted == file[p + 1]
                 lenBytes == SubSeq(file, p + 2, p + 5)
             IN  IF IndexLenInvalid(lenBytes) THEN break
                 ELSE LET indexLen == DecodeU32(lenBytes) IN
                      IF p + 5 + indexLen > Len(file) THEN break
                      ELSE IF p + 5 + indexLen + 4 > Len(file) THEN break
                      ELSE LET index == SubSeq(file, p + 6, p + 5 + indexLen)
                               value == DecodeI32(SubSeq(file, p + 6 + indexLen,
                                                         p + 9 + indexLen))
                               old == IF index \in DOMAIN map THEN map[index]
                                      ELSE <<>>
                           IN  [exit |-> FALSE,
                                pos |-> p + 9 + indexLen,
                                map |-> IF deleted = 0
                                        THEN PutKey(map, index, Append(old, value))
                                        ELSE map]

\* One pass through the body of the while loop of the markDeleted of the
\* full-scan build: [exit, pos, file].  exit: a break or the return after
\* the write of the tombstone.
scan_markDeletedIteration(file, p, targetIndex, targetValue) ==
    LET break == [exit |-> TRUE, pos |-> p, file |-> file]
    IN  IF p + 1 > Len(file) THEN break
        ELSE IF p + 5 > Len(file) THEN break
        ELSE LET deleted == file[p + 1]
                 lenBytes == SubSeq(file, p + 2, p + 5)
             IN  IF IndexLenInvalid(lenBytes) THEN break
                 ELSE LET indexLen == DecodeU32(lenBytes) IN
                      IF p + 5 + indexLen > Len(file) THEN break
                      ELSE IF p + 5 + indexLen + 4 > Len(file) THEN break
                      ELSE LET index == SubSeq(file, p + 6, p + 5 + indexLen)
                               value == DecodeI32(SubSeq(file, p + 6 + indexLen,
                                                         p + 9 + indexLen))
                           IN  IF deleted = 0 /\ index = targetIndex
                                      /\ value = targetValue
                               THEN [exit |-> TRUE,
                                     pos |-> p + 9 + indexLen,
                                     file |-> [file EXCEPT ![p + 1] = 1]]
                               ELSE [exit |-> FALSE,
                                     pos |-> p + 9 + indexLen,
                                     file |-> file]

\* rebuildIndex, one iteration of its scan; after the break the sort of
\* every key's entries, and the constructor returns to main.
rebuildIndexStep ==
    /\ pc = "rebuildIndex"
    /\ LET it == rebuildIteration(dataFile, getPos, indexMap)
       IN  IF it.exit
           THEN /\ indexMap' = [k \in DOMAIN it.map |-> SortPairs(it.map[k])]
                /\ pc' = "main"
                /\ getPos' = getPos
           ELSE /\ indexMap' = it.map
                /\ pc' = "rebuildIndex"
                /\ getPos' = it.pos
    /\ UNCHANGED <<dataFile, cout, call, live, writes, scanVars, offVars>>

scan_rebuildIndexStep ==
    /\ pc = "scan_rebuildIndex"
    /\ LET it == scan_rebuildIteration(scanFile, getPos, scanMap)
       IN  IF it.exit
           THEN /\ scanMap' = [k \in DOMAIN it.map |-> SortInts(it.map[k])]
                /\ pc' = "scan_main"
                /\ getPos' = getPos
           ELSE /\ scanMap' = it.map
                /\ pc' = "scan_rebuildIndex"
                /\ getPos' = it.pos
    /\ UNCHANGED <<dataFile, indexMap, cout, call, live, writes,
                   scanFile, scanCout, scanWrites, offVars>>

\* find of the canonical build up to its loop: null and the return, or
\* the loop entered with i = 0.
findStart(index) ==
    /\ pc = "main"
    /\ call' = [op |-> "find", index |-> index, value |-> 0]
    /\ IF index \notin DOMAIN indexMap \/ indexMap[index] = <<>>
       THEN cout' = <<"null">> /\ pc' = "main"
       ELSE cout' = <<>> /\ pc' = "find"
    /\ getPos' = 0
    /\ UNCHANGED <<dataFile, indexMap, live, writes, scanVars, offVars>>

\* One evaluation of i < entries.size() in find: the body and i++, or the
\* end of the loop and the return to main.
findStep ==
    /\ pc = "find"
    /\ LET entries == indexMap[call.index]
       IN  IF getPos < Len(entries)
           THEN /\ cout' = Append(cout, ToString(entries[getPos + 1][1]))
                /\ getPos' = getPos + 1
                /\ pc' = "find"
           ELSE /\ cout' = cout
                /\ getPos' = getPos
                /\ pc' = "main"
    /\ UNCHANGED <<dataFile, indexMap, call, live, writes, scanVars, offVars>>

\* (index, value) is in the index of the full-scan build, as its remove
\* decides it.
scan_Present(map, index, value) ==
    /\ index \in DOMAIN map
    /\ LET found == scan_lower_bound(map[index], value)
       IN  found <= Len(map[index]) /\ map[index][found] = value

\* remove of the full-scan build up to the loop of markDeleted: the return
\* when the value is not in the index, or seekg(0) and the loop entered.
scan_removeStart(index, value) ==
    /\ pc = "scan_main"
    /\ call' = [op |-> "delete", index |-> index, value |-> value]
    /\ pc' = IF scan_Present(scanMap, index, value) THEN "scan_markDeleted"
             ELSE "scan_main"
    /\ getPos' = 0
    /\ scanCout' = <<>>
    /\ UNCHANGED <<dataFile, indexMap, cout, live, writes,
                   scanFile, scanMap, scanWrites, offVars>>

\* markDeleted of the full-scan build, one iteration of its scan; after the
\* break or the return, remove erases the value and returns to main.
scan_markDeletedStep ==
    /\ pc = "scan_markDeleted"
    /\ LET it == scan_markDeletedIteration(scanFile, getPos,
                                           call.index, call.value)
       IN  IF it.exit
           THEN /\ scanFile' = it.file
                /\ scanMap' = scan_removeResult(scanFile, scanMap,
                                                call.index, call.value)[2]
                /\ pc' = "scan_main"
                /\ getPos' = getPos
           ELSE /\ scanFile' = scanFile
                /\ scanMap' = scanMap
                /\ pc' = "scan_markDeleted"
                /\ getPos' = it.pos
    /\ UNCHANGED <<dataFile, indexMap, cout, call, live, writes,
                   scanCout, scanWrites, offVars>>

\* The steps inside an operation: the process goes on with them.
LoopStep ==
    \/ rebuildIndexStep
    \/ scan_rebuildIndexStep
    \/ findStep
    \/ scan_markDeletedStep

\* Both builds with their loops taken one iteration at a time: insert and
\* the remove of the canonical build have no loop of their own.
NextSteps ==
    \/ rebuildIndexStep
    \/ scan_rebuildIndexStep
    \/ findStep
    \/ scan_markDeletedStep
    \/ \E p \in StepPairs :
           pc = "main" /\ writes < MaxStepAppends /\ insert(p[1], p[2])
               /\ UNCHANGED <<scanVars, offVars, stepVars>>
    \/ \E p \in StepPairs :
           pc = "main" /\ remove(p[1], p[2])
               /\ UNCHANGED <<scanVars, offVars, stepVars>>
    \/ \E index \in StepKeys : findStart(index)
    \/ \E p \in StepPairs :
           pc = "scan_main" /\ scanWrites < MaxStepAppends
               /\ scan_insert(p[1], p[2])
               /\ call' = [op |-> "insert", index |-> p[1], value |-> p[2]]
               /\ UNCHANGED <<dataFile, indexMap, cout, live, writes,
                              offVars, stepVars>>
    \/ \E p \in StepPairs : scan_removeStart(p[1], p[2])
    \/ \E index \in StepKeys :
           pc = "scan_main" /\ scan_find(index)
               /\ call' = [op |-> "find", index |-> index, value |-> 0]
               /\ UNCHANGED <<dataFile, indexMap, cout, live, writes,
                              offVars, stepVars>>

\* A process that is inside an operation takes its next step.
SpecSteps == InitSteps /\ [][NextSteps]_vars /\ WF_vars(LoopStep)

\* ---------------------------------------------------- reading the state

\* The values key k has in the index.
Reported(map, k) ==
    IF k \in DOMAIN map THEN {map[k][i][1] : i \in 1..Len(map[k])} ELSE {}

\* (k, v) is somewhere in k's sequence.
InIndex(map, k, v) == v \in Reported(map, k)

\* The same for the index of the full-scan build.
ScanReported(map, k) ==
    IF k \in DOMAIN map THEN {map[k][i] : i \in 1..Len(map[k])} ELSE {}

InScanIndex(map, k, v) == v \in ScanReported(map, k)

\* The values whose most recent insert/remove call under key k was an insert.
LiveValues(k) == {p[2] : p \in {q \in live : q[1] = k}}

TokenSet(line) == {line[i] : i \in 1..Len(line)}

\* The log read as the records the appends wrote, whatever their key
\* length: each [offset, deleted, index, value].  (Every append writes a
\* whole record, so from an absent log the file is a sequence of records.)
RECURSIVE RecordsFrom(_, _)
RecordsFrom(file, pos) ==
    IF pos + 9 > Len(file) THEN <<>>
    ELSE LET n == DecodeU32(SubSeq(file, pos + 2, pos + 5))
         IN  IF pos + 9 + n > Len(file) THEN <<>>
             ELSE <<[offset |-> pos,
                     deleted |-> file[pos + 1],
                     index |-> SubSeq(file, pos + 6, pos + 5 + n),
                     value |-> DecodeI32(SubSeq(file, pos + 6 + n, pos + 9 + n))]>>
                  \o RecordsFrom(file, pos + 9 + n)

Records(file) == RecordsFrom(file, 0)

\* The record of (k, v) that starts at byte `offset` of the file, live.
LiveRecordAt(file, offset, k, v) ==
    /\ offset + Len(EntryBytes(k, v)) <= Len(file)
    /\ SubSeq(file, offset + 1, offset + Len(EntryBytes(k, v))) = EntryBytes(k, v)

\* The record of (k, v) that starts at byte `offset` of the file, tombstoned.
DeadRecordAt(file, offset, k, v) ==
    /\ offset + Len(EntryBytes(k, v)) <= Len(file)
    /\ SubSeq(file, offset + 1, offset + Len(EntryBytes(k, v)))
           = <<1>> \o Tail(EntryBytes(k, v))

\* ------------------------------------------------------------------ claims

\* C1: in one session started on an absent log, find(k) prints exactly the
\* values v whose most recent insert/remove call on (k, v) was an insert,
\* and prints null exactly when there is none.
C1_FindReportsLiveValues ==
    call.op = "find" =>
        LET want == {ToString(v) : v \in LiveValues(call.index)}
        IN  IF want = {} THEN cout = <<"null">>
            ELSE cout # <<"null">> /\ TokenSet(cout) = want /\ Len(cout) = Cardinality(want)

\* find a printed 5 after (a, 5) was inserted and another pair was inserted
\* and removed again.
C1_Witness ==
    /\ call = [op |-> "find", index |-> KeyA, value |-> 0]
    /\ cout = <<"5">>
    /\ live = {<<KeyA, 5>>}
    /\ DeadRecordAt(dataFile, 0, KeyA, 3)

\* C2: a restart leaves the result of find(k) unchanged for every key.
C2_RestartKeepsFind ==
    [][Restart => \A k \in Keys : findLine(indexMap', k) = findLine(indexMap, k)]_vars

\* C3: a pair whose most recent insert/remove call was a remove is reported
\* by no find, in the same session and after any number of restarts.
C3_TombstoneFinality ==
    \A p \in Pairs \ live :
        /\ ~InIndex(indexMap, p[1], p[2])
        /\ ToString(p[2]) \notin TokenSet(findLine(indexMap, p[1]))
        /\ (call.op = "find" /\ call.index = p[1]) => ToString(p[2]) \notin TokenSet(cout)

\* After a restart: (a, 3) was removed while present (its record is
\* tombstoned), a still has the live value 5.
C3_Witness ==
    /\ call.op = "open"
    /\ DeadRecordAt(dataFile, 0, KeyA, 3)
    /\ <<KeyA, 3>> \notin live
    /\ Reported(indexMap, KeyA) = {5}

\* C4: an insert(k, v) call on a pair that is in the index changes neither
\* the log (length and bytes) nor the index, in the offset-based build and
\* in the full-scan build.
C4_IdempotentInsert ==
    [][call'.op = "insert" =>
          /\ InIndex(indexMap, call'.index, call'.value)
                 => (dataFile' = dataFile /\ indexMap' = indexMap)
          /\ InScanIndex(scanMap, call'.index, call'.value)
                 => (scanFile' = scanFile /\ scanMap' = scanMap)]_vars

\* insert(a, 3) was called when the log already ended with the record of
\* (a, 5) written after that of (a, 3).
C4_Witness ==
    /\ call = [op |-> "insert", index |-> KeyA, value |-> 3]
    /\ dataFile = EntryBytes(KeyA, 3) \o EntryBytes(KeyA, 5)
    /\ writes = 2
    /\ scanFile = dataFile
    /\ scanWrites = 2

\* C5: every key's sequence is strictly ascending by value.
C5_SortedSequences ==
    \A k \in DOMAIN indexMap :
        \A i \in 1..(Len(indexMap[k]) - 1) : indexMap[k][i][1] < indexMap[k][i + 1][1]

\* After a restart, with the values written in the order 5, -1, 3.
C5_Witness ==
    /\ call.op = "open"
    /\ KeyA \in DOMAIN indexMap
    /\ indexMap[KeyA] = <<<<-1, 10>>, <<3, 20>>, <<5, 0>>>>

\* How many entries of k's sequence carry the value v.
Occurrences(map, k, v) ==
    IF k \in DOMAIN map
    THEN Cardinality({i \in 1..Len(map[k]) : map[k][i][1] = v})
    ELSE 0

\* C6: once (k, v) was inserted, removed and inserted again, the index holds
\* v exactly once under k, at the offset of a live record that lies after
\* the tombstoned one, in the same session and after a restart.
C6_ReinsertAfterDelete ==
    \A p \in live :
        \A i \in 1..Len(Records(dataFile)) :
            LET r == Records(dataFile)[i]
            IN  (r.index = p[1] /\ r.value = p[2] /\ r.deleted # 0)
                    => /\ Occurrences(indexMap, p[1], p[2]) = 1
                       /\ \E j \in 1..Len(indexMap[p[1]]) :
                              /\ indexMap[p[1]][j][1] = p[2]
                              /\ indexMap[p[1]][j][2] > r.offset
                              /\ LiveRecordAt(dataFile, indexMap[p[1]][j][2], p[1], p[2])

\* C7: every pair (value, offset) of key k's sequence names the start of a
\* live record of the log whose key is k and whose value is the pair's.
C7_IndexLogConsistency ==
    \A k \in DOMAIN indexMap :
        \A i \in 1..Len(indexMap[k]) :
            /\ LiveRecordAt(dataFile, indexMap[k][i][2], k, indexMap[k][i][1])
            /\ \E j \in 1..Len(Records(dataFile)) :
                   Records(dataFile)[j].offset = indexMap[k][i][2]

\* After a remove and a restart: (a, 3) tombstoned at offset 0, (b, 3) and
\* (a, 5) live behind it.
C7_Witness ==
    /\ call.op = "open"
    /\ DeadRecordAt(dataFile, 0, KeyA, 3)
    /\ KeyA \in DOMAIN indexMap /\ indexMap[KeyA] = <<<<5, 20>>>>
    /\ KeyB \in DOMAIN indexMap /\ indexMap[KeyB] = <<<<3, 10>>>>

\* C8: the rebuild scan of the current log yields the current index.
C8_IndexReconstructable ==
    indexMap = rebuildIndex(dataFile)

\* C9: an insert or delete call on key x leaves every other key y as it
\* was: its sequence, its records in the log (offsets and tombstone bytes
\* included), what find(y) prints, and what find(y) prints after a restart;
\* in the offset-based build and in the full-scan build.
C9_KeyIndependence ==
    [][call'.op \in {"insert", "delete"} =>
          LET x == call'.index
              before == Records(dataFile)
              after == Records(dataFile')
              reopened == rebuildIndex(dataFile)
              reopened2 == rebuildIndex(dataFile')
              scanBefore == Records(scanFile)
              scanAfter == Records(scanFile')
              scanReopened == scan_rebuildIndex(scanFile)
              scanReopened2 == scan_rebuildIndex(scanFile')
          IN  \A y \in Keys \ {x} :
                  /\ (y \in DOMAIN indexMap') = (y \in DOMAIN indexMap)
                  /\ y \in DOMAIN indexMap => indexMap'[y] = indexMap[y]
                  /\ findLine(indexMap', y) = findLine(indexMap, y)
                  /\ \/ dataFile' = dataFile
                     \/ /\ SelectSeq(after, LAMBDA r : r.index = y)
                               = SelectSeq(before, LAMBDA r : r.index = y)
                        /\ findLine(reopened2, y) = findLine(reopened, y)
                  /\ (y \in DOMAIN scanMap') = (y \in DOMAIN scanMap)
                  /\ y \in DOMAIN scanMap => scanMap'[y] = scanMap[y]
                  /\ scan_findLine(scanMap', y) = scan_findLine(scanMap, y)
                  /\ \/ scanFile' = scanFile
                     \/ /\ SelectSeq(scanAfter, LAMBDA r : r.index = y)
                               = SelectSeq(scanBefore, LAMBDA r : r.index = y)
                        /\ scan_findLine(scanReopened2, y)
                               = scan_findLine(scanReopened, y)]_vars

\* remove(a, 3) has tombstoned the record between the two live records of b
\* and a.
C9_Witness ==
    /\ call = [op |-> "delete", index |-> KeyA, value |-> 3]
    /\ DeadRecordAt(dataFile, 10, KeyA, 3)
    /\ LiveRecordAt(dataFile, 0, KeyB, 3)
    /\ LiveRecordAt(dataFile, 20, KeyA, 5)
    /\ KeyB \in DOMAIN indexMap /\ indexMap[KeyB] = <<<<3, 0>>>>
    /\ scanFile = dataFile
    /\ KeyB \in DOMAIN scanMap /\ scanMap[KeyB] = <<3>>

\* C10: a delete call on a pair that is not in the index writes no byte of
\* the log, leaves the index unchanged and prints nothing; in the
\* offset-based build and in the full-scan build.
C10_RemoveAbsentIsNoOp ==
    [][call'.op = "delete" =>
          /\ ~InIndex(indexMap, call'.index, call'.value)
                 => (dataFile' = dataFile /\ indexMap' = indexMap /\ cout' = <<>>)
          /\ ~InScanIndex(scanMap, call'.index, call'.value)
                 => (scanFile' = scanFile /\ scanMap' = scanMap /\ scanCout' = <<>>)]_vars

\* remove(a, 3) was called when a held only the values -1 and 5; no record
\* of (a, 3) was ever written.
C10_Witness ==
    /\ call = [op |-> "delete", index |-> KeyA, value |-> 3]
    /\ dataFile = EntryBytes(KeyA, 5) \o EntryBytes(KeyA, -1)
    /\ KeyA \in DOMAIN indexMap /\ indexMap[KeyA] = <<<<-1, 10>>, <<5, 0>>>>
    /\ scanFile = dataFile
    /\ KeyA \in DOMAIN scanMap /\ scanMap[KeyA] = <<-1, 5>>

\* C11: no key of the index has an empty sequence, and find(k) prints null
\* for every key with no value whose most recent insert/remove call was an
\* insert (never inserted, or every inserted value removed since).
C11_NullForNoLiveValues ==
    /\ \A k \in DOMAIN indexMap : indexMap[k] # <<>>
    /\ \A k \in Keys :
           LiveValues(k) = {} =>
               /\ k \notin DOMAIN indexMap
               /\ findLine(indexMap, k) = <<"null">>
               /\ (call.op = "find" /\ call.index = k) => cout = <<"null">>

\* find a printed null after the only value of a was removed (its record
\* is tombstoned), while b keeps a value.
C11_Witness ==
    /\ call = [op |-> "find", index |-> KeyA, value |-> 0]
    /\ cout = <<"null">>
    /\ dataFile = <<1>> \o Tail(EntryBytes(KeyA, 5)) \o EntryBytes(KeyB, 3)
    /\ DOMAIN indexMap = {KeyB}

\* A record decodes fully at byte offset pos: the tombstone byte and the
\* four length bytes are there, the length is at most 256, and the key and
\* the four value bytes are there.
DecodesAt(file, pos) ==
    /\ pos + 5 <= Len(file)
    /\ file[pos + 4] = 0 /\ file[pos + 5] = 0
    /\ file[pos + 2] + 256 * file[pos + 3] <= 256
    /\ pos + 5 + file[pos + 2] + 256 * file[pos + 3] + 4 <= Len(file)

\* The records of the fully decoded prefix of the file, from offset pos.
RECURSIVE DecodedPrefixFrom(_, _)
DecodedPrefixFrom(file, pos) ==
    IF ~DecodesAt(file, pos) THEN <<>>
    ELSE LET n == file[pos + 2] + 256 * file[pos + 3]
         IN  <<[offset |-> pos,
                 deleted |-> file[pos + 1],
                 index |-> SubSeq(file, pos + 6, pos + 5 + n),
                 value |-> DecodeI32(SubSeq(file, pos + 6 + n, pos + 9 + n))]>>
              \o DecodedPrefixFrom(file, pos + 9 + n)

\* The (value, offset) pairs of the live records of key k among `records`.
LivePairsOf(records, k) ==
    {<<records[i].value, records[i].offset>> :
        i \in {j \in 1..Len(records) : records[j].deleted = 0 /\ records[j].index = k}}

\* `map` holds exactly the live records of the decoded prefix of `file`.
HoldsDecodedPrefix(map, file) ==
    LET prefix == DecodedPrefixFrom(file, 0)
    IN  /\ DOMAIN map = {prefix[i].index : i \in {j \in 1..Len(prefix) : prefix[j].deleted = 0}}
        /\ \A k \in DOMAIN map :
               /\ {map[k][i] : i \in 1..Len(map[k])} = LivePairsOf(prefix, k)
               /\ Len(map[k]) = Cardinality(LivePairsOf(prefix, k))

\* C12: the index a rebuild leaves holds exactly the non-tombstoned records
\* of the fully decoded prefix of the log, nothing from the first record
\* that does not decode onward, and the rebuild changes no byte of the log
\* (a restart leaves the file as it is; a torn append only adds bytes).
C12_RebuildStopsAtUndecodable ==
    [][call'.op = "open" =>
          /\ HoldsDecodedPrefix(indexMap', dataFile')
          /\ writes' = writes => dataFile' = dataFile
          /\ Len(dataFile') >= Len(dataFile)
          /\ SubSeq(dataFile', 1, Len(dataFile)) = dataFile]_vars

\* After a restart on a log whose second record has a 257-byte key: the
\* index holds the first record only, the record of (b, 3) behind the
\* undecodable one is not in it.
C12_Witness ==
    /\ call.op = "open"
    /\ dataFile = EntryBytes(KeyA, 3) \o EntryBytes(KeyLong, 5) \o EntryBytes(KeyB, 3)
    /\ DOMAIN indexMap = {KeyA}
    /\ indexMap[KeyA] = <<<<3, 0>>>>

\* C13: every record insert has appended carries a keyLen field of at most
\* 256, so that a rebuild decodes it.
C13_WrittenKeyLenWithinCap ==
    \A i \in 1..Len(Records(dataFile)) :
        /\ Len(Records(dataFile)[i].index) <= MaxIndexLen
        /\ DecodesAt(dataFile, Records(dataFile)[i].offset)

\* C14: no step changes a byte of an existing record other than its
\* tombstone byte, which only goes from 0 to 1; no record moves, none is
\* removed, the file never shrinks.
C14_RecordImmutability ==
    [][\/ dataFile' = dataFile
       \/ LET old == Records(dataFile)
              new == Records(dataFile')
              starts == {old[j].offset : j \in 1..Len(old)}
          IN  /\ Len(dataFile') >= Len(dataFile)
              /\ \A i \in 1..Len(dataFile) :
                     \/ dataFile'[i] = dataFile[i]
                     \/ (i - 1) \in starts /\ dataFile[i] = 0 /\ dataFile'[i] = 1
              /\ Len(new) >= Len(old)
              /\ \A j \in 1..Len(old) :
                     /\ new[j].offset = old[j].offset
                     /\ new[j].index = old[j].index
                     /\ new[j].value = old[j].value
                     /\ old[j].deleted # 0 => new[j].deleted = old[j].deleted]_vars

\* (a, 3) was inserted anew behind its own tombstoned record and the record
\* of (b, 3).
C14_Witness ==
    /\ call = [op |-> "insert", index |-> KeyA, value |-> 3]
    /\ dataFile = <<1>> \o Tail(EntryBytes(KeyA, 3)) \o EntryBytes(KeyB, 3)
                      \o EntryBytes(KeyA, 3)

\* C15: insert(k, v) appends exactly one record of 1 + 4 + len(k) + 4
\* bytes, tombstone byte 0, at the end of the file when v is not in k's
\* index sequence, and leaves the file as it is when v is there; remove and
\* find never change the length of the file.
C15_LogGrowth ==
    [][LET k == call'.index
           v == call'.value
           n == Len(dataFile)
       IN  /\ (call'.op = "insert" /\ InIndex(indexMap, k, v)) =>
                  dataFile' = dataFile
           /\ (call'.op = "insert" /\ ~InIndex(indexMap, k, v)) =>
                  /\ Len(dataFile') = n + 1 + 4 + Len(k) + 4
                  /\ SubSeq(dataFile', 1, n) = dataFile
                  /\ dataFile'[n + 1] = 0
                  /\ DecodeU32(SubSeq(dataFile', n + 2, n + 5)) = Len(k)
                  /\ SubSeq(dataFile', n + 6, n + 5 + Len(k)) = k
                  /\ DecodeI32(SubSeq(dataFile', n + 6 + Len(k), n + 9 + Len(k))) = v
                  /\ Len(Records(dataFile')) = Len(Records(dataFile)) + 1
           /\ call'.op \in {"delete", "find"} =>
                  Len(dataFile') = n]_vars

\* insert(b, 3) has appended its record behind that of (a, -1).
C15_Witness ==
    /\ call = [op |-> "insert", index |-> KeyB, value |-> 3]
    /\ dataFile = EntryBytes(KeyA, -1) \o EntryBytes(KeyB, 3)

\* The positions of k's sequence that hold value v.
PositionsOf(map, k, v) ==
    IF k \in DOMAIN map THEN {j \in 1..Len(map[k]) : map[k][j][1] = v} ELSE {}

\* The records of the log with key k and value v that are live.
LiveRecordsOf(file, k, v) ==
    {r \in {Records(file)[i] : i \in 1..Len(Records(file))} :
         r.index = k /\ r.value = v /\ r.deleted = 0}

\* C16: remove(k, v) on a present pair changes exactly one byte of the log,
\* the tombstone byte at the offset stored in the pair; the record there is
\* the one live record with key k and value v; exactly that pair leaves k's
\* sequence, the other pairs of k stay in place and in order, and the other
\* keys keep their sequences.
C16_RemoveTombstonesOnePair ==
    [][(call'.op = "delete" /\ InIndex(indexMap, call'.index, call'.value)) =>
           LET k == call'.index
               v == call'.value
           IN  \E j \in PositionsOf(indexMap, k, v) :
                   LET off == indexMap[k][j][2]
                       rest == EraseAt(indexMap[k], j)
                   IN  /\ dataFile[off + 1] = 0
                       /\ dataFile' = [dataFile EXCEPT ![off + 1] = 1]
                       /\ LiveRecordsOf(dataFile, k, v)
                              = {[offset |-> off, deleted |-> 0,
                                  index |-> k, value |-> v]}
                       /\ LiveRecordsOf(dataFile', k, v) = {}
                       /\ IF rest = <<>>
                          THEN k \notin DOMAIN indexMap'
                          ELSE k \in DOMAIN indexMap' /\ indexMap'[k] = rest
                       /\ \A other \in Keys \ {k} :
                              IF other \in DOMAIN indexMap
                              THEN other \in DOMAIN indexMap'
                                   /\ indexMap'[other] = indexMap[other]
                              ELSE other \notin DOMAIN indexMap']_vars

\* The offsets the pairs of the index carry.
IndexOffsets(map) ==
    UNION {{map[k][j][2] : j \in 1..Len(map[k])} : k \in DOMAIN map}

\* No two pairs of the index, of one key or of two, carry the same offset.
OffsetsDistinct(map) ==
    \A k1 \in DOMAIN map, k2 \in DOMAIN map :
        \A j1 \in 1..Len(map[k1]), j2 \in 1..Len(map[k2]) :
            map[k1][j1][2] = map[k2][j2][2] => k1 = k2 /\ j1 = j2

\* C17: the offset an appending insert stores is the length of the file
\* before the append, it is greater than the offset of every record in the
\* log and of every pair in the index, and no two pairs of the index carry
\* the same offset.
C17_OffsetsIncrease ==
    [][/\ (call'.op = "insert" /\ dataFile' # dataFile) =>
              LET k == call'.index
                  v == call'.value
                  old == Records(dataFile)
              IN  /\ \E j \in PositionsOf(indexMap', k, v) :
                         indexMap'[k][j][2] = Len(dataFile)
                  /\ \A i \in 1..Len(old) : old[i].offset < Len(dataFile)
                  /\ \A o \in IndexOffsets(indexMap) : o < Len(dataFile)
                  /\ Records(dataFile')[Len(old) + 1].offset = Len(dataFile)
       /\ OffsetsDistinct(indexMap')]_vars

\* After a restart over the tombstoned record of (b, 3), insert(a, 5) got
\* the offset 20 behind the records at 0 and 10.
C17_Witness ==
    /\ call = [op |-> "insert", index |-> KeyA, value |-> 5]
    /\ DOMAIN indexMap = {KeyA}
    /\ indexMap[KeyA] = <<<<3, 0>>, <<5, 20>>>>
    /\ DeadRecordAt(dataFile, 10, KeyB, 3)

\* The number of records of (k, v) in the log of the offsets/values build.
RECURSIVE off_RecordCountFrom(_, _, _, _)
off_RecordCountFrom(file, pos, k, v) ==
    LET e == off_readEntry(file, pos)
    IN  IF ~e.ok THEN 0
        ELSE (IF e.index = k /\ e.value = v THEN 1 ELSE 0)
                 + off_RecordCountFrom(file, pos + 8 + Len(e.index), k, v)

\* How often the token of v stands in a printed line.
TimesPrinted(line, v) ==
    Cardinality({i \in 1..Len(line) : line[i] = ToString(v)})

\* C18: in the offsets/values build, with restarts, a pair that was inserted
\* and whose most recent insert/remove call was a remove is not reported by
\* find; a pair that was inserted, removed and inserted again is reported
\* exactly once.
C18_OffsetsTombstoneFinality ==
    \A p \in OffPairs :
        LET k == p[1]
            v == p[2]
            records == off_RecordCountFrom(offFile, 0, k, v)
            line == off_findLine(offMap, k)
        IN  /\ (p \notin live /\ records >= 1) =>
                   /\ TimesPrinted(line, v) = 0
                   /\ (call.op = "find" /\ call.index = k) =>
                          TimesPrinted(offCout, v) = 0
            /\ (p \in live /\ records >= 2) =>
                   /\ TimesPrinted(line, v) = 1
                   /\ (call.op = "find" /\ call.index = k) =>
                          TimesPrinted(offCout, v) = 1

\* The pairs of the index, each as <<key, position in the key's sequence>>.
IndexPairs(map) ==
    UNION {{<<k, j>> : j \in 1..Len(map[k])} : k \in DOMAIN map}

\* The positions in Records(file) of the live records.
LiveRecordPositions(file) ==
    {i \in 1..Len(Records(file)) : Records(file)[i].deleted = 0}

\* C19: in every state reachable by operations and restarts from an absent
\* log, the log holds at most one live record of any (key, value) pair and
\* as many live records as the index holds pairs.
C19_OneLiveRecordPerPair ==
    /\ \A p \in Pairs : Cardinality(LiveRecordsOf(dataFile, p[1], p[2])) <= 1
    /\ Cardinality(LiveRecordPositions(dataFile))
           = Cardinality(IndexPairs(indexMap))

\* C20: the full-scan build and the canonical build, started on absent logs
\* and given the same commands and restarts, print the same find outputs
\* and have byte-identical log files after every operation.
C20_BuildsEquivalent ==
    /\ scanFile = dataFile
    /\ scanCout = cout
    /\ \A k \in Keys : scan_findLine(scanMap, k) = findLine(indexMap, k)

\* The process is between two commands.
AtMain == pc \in {"main", "scan_main"}

\* A step taken inside a loop either leaves the loop, with the result the
\* whole operation has, or stays in it with the position moved forward
\* and not beyond the end of what is scanned.
LoopStepConsumesOrExits ==
    /\ pc = "rebuildIndex" =>
           \/ pc' = "main" /\ indexMap' = rebuildIndex(dataFile)
           \/ pc' = pc /\ getPos' > getPos /\ getPos' <= Len(dataFile)
    /\ pc = "scan_rebuildIndex" =>
           \/ pc' = "scan_main" /\ scanMap' = scan_rebuildIndex(scanFile)
           \/ pc' = pc /\ getPos' > getPos /\ getPos' <= Len(scanFile)
    /\ pc = "scan_markDeleted" =>
           \/ /\ pc' = "scan_main"
              /\ scanFile' = scan_markDeleted(scanFile, call.index, call.value)
           \/ pc' = pc /\ getPos' > getPos /\ getPos' <= Len(scanFile)
    /\ pc = "find" =>
           \/ pc' = "main" /\ cout' = findLine(indexMap, call.index)
           \/ pc' = pc /\ getPos' = getPos + 1
                  /\ getPos' <= Len(indexMap[call.index])

\* C21: on every log file, garbage and cut-off tails included, the scan of
\* rebuildIndex at startup comes to its end, and so does every insert,
\* remove and find, the scan of the whole file by the remove of the
\* full-scan build included; every iteration of a scan moves the position
\* forward by at least one byte or leaves the loop.
C21_OperationsTerminate ==
    /\ [][LoopStepConsumesOrExits]_vars
    /\ ~AtMain ~> AtMain

\* The remove of the full-scan build has scanned over the record with the
\* empty key and the tombstoned record of (a, 3) and has tombstoned the
\* third record.
C21_Witness ==
    /\ pc = "scan_main"
    /\ call = [op |-> "delete", index |-> KeyB, value |-> 3]
    /\ getPos = 19
    /\ scanFile = EntryBytes(<<>>, 5) \o <<1>> \o Tail(EntryBytes(KeyA, 3))
                      \o <<1>> \o Tail(EntryBytes(KeyB, 3))

====
